---- MODULE Spec2Model ----
(***************************************************************************)
(* The MarketMaker orchestrator of src/src/exchanges/types.ts as a state   *)
(* machine: the lifecycle state, the three interval timers, the cached     *)
(* order list, the venue's resting orders, and every asynchronous          *)
(* invocation (start, stop, quoting tick, sync tick, margin check) that is *)
(* suspended at an await.  One action is one run of the JavaScript event   *)
(* loop: the code between two awaits of one invocation.                    *)
(*                                                                         *)
(* A venue call is issued in the step that suspends its caller and settles *)
(* in the step that resumes it: a call that changes the venue              *)
(* (cancelAllOrders, placeOrder) takes effect there when it succeeds, and  *)
(* leaves the venue as it is when it is rejected; a call that only reads   *)
(* answers there with the venue's contents of that moment.                 *)
(***************************************************************************)
EXTENDS Integers, Sequences, FiniteSets, Bags

(***************************************************************************)
(* Bounds of the model.                                                    *)
(***************************************************************************)
\* quoting-tick invocations that may be suspended at an await at one time
MaxQuoteTicks == 1
\* sync-tick invocations that may be suspended at one time
MaxSyncTicks == 1
\* margin-check invocations that may be suspended at one time
MaxMarginTicks == 1
\* stop() invocations that may be suspended at one time
MaxStops == 1
\* start() calls in one behaviour
MaxStartCalls == 1
\* resting orders the venue accepts before it rejects a placeOrder
MaxVenueOrders == 2
\* loop errors counted before the model stops raising further ones
MaxErrorCount == 10
\* quoting ticks in flight at one time where ticks overlap
MaxOverlap == 2
MaxAdapterCalls == 2
MaxSamples == 3
MaxTs == 5
\* signals delivered to the process after the one that began the shutdown
MaxSignals == 2

(***************************************************************************)
(* Program constants and configuration.                                    *)
(***************************************************************************)
maxErrors == 10
spreadBps == 10
takeProfitBps == 5
closeThresholdUsd == 500
maxPositionUsd == 2000
\* minMarginRatio and the ratios below are in percent (0.1 is 10)
minMarginRatio == 10
\* time is counted in quoting periods
updateThrottleMs == 1
tickSize == 1

\* fair prices the feed can deliver, in ticks; 0 stands for null
FairPrices == {10000, 10100}
\* signed notionals (USD) a venue position snapshot can amount to
Notionals == {0, 600, 2100}
\* equity and availableMargin values getAccount can report
Equities == {0, 100}
Margins == {8, 10, 12}

VARIABLES
  state,              \* MarketMaker.state
  market,             \* MarketMaker.market: "null" or "resolved"
  currentOrders,      \* MarketMaker.currentOrders: the [side, price] of the cached orders
  mainLoopInterval,   \* TRUE iff the handle is not null
  orderSyncInterval,
  marginCheckInterval,
  leaked,             \* the timer kinds with a live interval whose handle was overwritten
  sinceUpdate,        \* min(Date.now() - lastUpdateTime, updateThrottleMs)
  errorCount,         \* MarketMaker.errorCount
  lastMarginRatio,    \* MarketMaker.lastMarginRatio, in percent
  notional,           \* PositionManager: signed notional of the tracked position
  feed,               \* FairPriceCalculator: [connected, warm, sampled]
  venueOrders,        \* the venue: bag of resting orders [side, price, pre]
  procs,              \* bag of suspended invocations [kind, pc, todo, log]
  stopDone,           \* the latest stop() that returned since the latest start() call:
                      \* [done, cancelOk]
  startCalls,         \* start() calls so far that passed the guard
  limits,             \* the bounds and the venue's and feed's value sets this
                      \* behaviour runs under
  exitCode,           \* the process of cli/bot.ts: <<>> while it is alive, <<c>>
                      \* once process.exit(c) was called
  lateSignals,        \* cli/bot.ts: the signals that arrived with isShuttingDown set
  quoted              \* a Quoter on its own: [cfg, fairPrice, signedNotional, quote],
                      \* the config and market it is bound to, the arguments of
                      \* generateQuotes and <<the Quote returned>>; <<>> when unused

vars == <<state, market, currentOrders, mainLoopInterval, orderSyncInterval,
          marginCheckInterval, leaked, sinceUpdate, errorCount, lastMarginRatio,
          notional, feed, venueOrders, procs, stopDone, startCalls, limits, exitCode, quoted, lateSignals>>

(***************************************************************************)
(* Helpers on bags of invocations.                                         *)
(***************************************************************************)
One(x) == SetToBag({x})

Proc(kind, pc, todo, log) ==
  [kind |-> kind, pc |-> pc, todo |-> todo, log |-> log]

InFlight(kind) == {p \in BagToSet(procs) : p.kind = kind}

Count(kind) == BagCardinality([p \in InFlight(kind) |-> procs[p]])

\* the invocation p resumes as q, or ends
Resume(p, q) == (procs (-) One(p)) (+) One(q)

End(p) == procs (-) One(p)

Abs(n) == IF n < 0 THEN -n ELSE n

(***************************************************************************)
(* Fair Price Estimator (src/../pricing/fair-price.ts is not in src/; from *)
(* spec section 4.1).                                                      *)
(***************************************************************************)
\* warm-up time elapsed and at least one sample received
isReady == feed.warm /\ feed.sampled

\* the values getFairPrice() can return: null (0) until ready, then the running
\* average, which the samples arriving between two reads move anywhere in the
\* behaviour's prices
getFairPrice == IF isReady THEN limits.prices ELSE {0}

\* connect(): a fresh connectTime, so the warm-up has not elapsed
feedConnect(f) == [f EXCEPT !.connected = TRUE, !.warm = FALSE]

feedDisconnect(f) == [f EXCEPT !.connected = FALSE]

(***************************************************************************)
(* Quote Generator (src/../bots/mm/quoter.ts is not in src/; from spec     *)
(* section 4.2).                                                           *)
(***************************************************************************)
RoundDown(x, t) == (x \div t) * t

RoundUp(x, t) == ((x + t - 1) \div t) * t

\* step 2, for a half-spread hs and a tick size: fairPrice * (1 -/+ hs/10000),
\* the bid rounded down and the ask rounded up to the tick
bidTargetAt(fairPrice, hs, tick) == RoundDown((fairPrice * (10000 - hs)) \div 10000, tick)

\* an ask that is rounded down to the tick like the bid
askTargetRoundedDown(fairPrice, hs, tick) ==
  RoundDown((fairPrice * (10000 + hs)) \div 10000, tick)

askTargetAt(fairPrice, hs, tick) ==
  RoundUp((fairPrice * (10000 + hs) + 9999) \div 10000, tick)

isCloseModeAt(n) == Abs(n) >= closeThresholdUsd

bidTarget(fairPrice, hs) == bidTargetAt(fairPrice, hs, tickSize)

askTarget(fairPrice, hs) == askTargetAt(fairPrice, hs, tickSize)

generateQuotes(fairPrice, signedNotional) ==
  LET close == isCloseModeAt(signedNotional)
      hs == IF close THEN takeProfitBps ELSE spreadBps
      bid == bidTarget(fairPrice, hs)
      ask == askTarget(fairPrice, hs)
  IN [bidPrice |-> IF close /\ signedNotional > 0 THEN 0 ELSE bid,
      askPrice |-> IF close /\ signedNotional < 0 THEN 0 ELSE ask,
      reduceOnly |-> close]

quoteToOrders(quote) ==
  (IF quote.bidPrice # 0 THEN <<[side |-> "buy", price |-> quote.bidPrice]>> ELSE <<>>)
  \o (IF quote.askPrice # 0 THEN <<[side |-> "sell", price |-> quote.askPrice]>> ELSE <<>>)

\* stale: further than half the spread from the side's target at this fair price
isOrderStale(orderPrice, side, fairPrice) ==
  LET target == IF side = "buy" THEN bidTarget(fairPrice, spreadBps)
                ELSE askTarget(fairPrice, spreadBps)
  IN Abs(orderPrice - target) * 10000 > target * (spreadBps \div 2)

(***************************************************************************)
(* Exposure Tracker (src/../bots/mm/position.ts is not in src/; from spec  *)
(* section 4.3).                                                           *)
(***************************************************************************)
isAtMax == Abs(notional) >= maxPositionUsd

\* updatePosition(position or null, fairPrice): the state is replaced wholesale
updatePosition(snapshot) == snapshot

(***************************************************************************)
(* Orchestrator helpers.                                                   *)
(***************************************************************************)
\* shouldUpdateOrders (types.ts:455-471), on the cached order list
shouldUpdateOrders(fairPrice) ==
  IF currentOrders = {} THEN TRUE
  ELSE IF fairPrice = 0 THEN FALSE
  ELSE \E o \in currentOrders : isOrderStale(o.price, o.side, fairPrice)

\* the Order[] getOpenOrders(symbol) answers with
openOrders == {[side |-> o.side, price |-> o.price] : o \in BagToSet(venueOrders)}

\* the venue's placeOrder (IExchange, types.ts:55): the order rests on the venue
placeOrder(order) ==
  venueOrders (+) One([side |-> order.side, price |-> order.price, pre |-> FALSE])

\* cancelAllOrders (types.ts:507-514): on success no order of the symbol rests
\* and the cached list is emptied; a rejection is logged and nothing changes
cancelAllOrders(ok) ==
  /\ venueOrders' = IF ok THEN EmptyBag ELSE venueOrders
  /\ currentOrders' = IF ok THEN {} ELSE currentOrders

TimerLive(kind) ==
  \/ kind \in leaked
  \/ kind = "quote" /\ mainLoopInterval
  \/ kind = "sync" /\ orderSyncInterval
  \/ kind = "margin" /\ marginCheckInterval

\* a behaviour runs against one of four environments: stop() calls and every
\* margin ratio, or every fair price, or every position, or failing quoting ticks
Bounds(stops, errors) ==
  [quote |-> MaxQuoteTicks, sync |-> MaxSyncTicks, margin |-> MaxMarginTicks,
   stop |-> stops, startCalls |-> MaxStartCalls, errors |-> errors]

Scenarios ==
  {[b |-> Bounds(MaxStops, 0), prices |-> {CHOOSE f \in FairPrices : TRUE},
    notionals |-> {0}, margins |-> Margins],
   [b |-> Bounds(0, 0), prices |-> FairPrices,
    notionals |-> {0}, margins |-> {12}],
   [b |-> Bounds(0, 0), prices |-> {CHOOSE f \in FairPrices : TRUE},
    notionals |-> Notionals, margins |-> {12}],
   [b |-> Bounds(0, MaxErrorCount), prices |-> {CHOOSE f \in FairPrices : TRUE},
    notionals |-> {0}, margins |-> {12}]}

NoStop == [done |-> FALSE, cancelOk |-> FALSE]

\* the process has not called process.exit
NotExited == <<>>

\* no Quoter is exercised on its own
NoQuote == <<>>

Init ==
  /\ state = "stopped"
  /\ market = "null"
  /\ currentOrders = {}
  /\ mainLoopInterval = FALSE
  /\ orderSyncInterval = FALSE
  /\ marginCheckInterval = FALSE
  /\ leaked = {}
  /\ sinceUpdate = updateThrottleMs
  /\ errorCount = 0
  /\ lastMarginRatio = 100
  /\ notional = 0
  /\ feed = [connected |-> FALSE, warm |-> FALSE, sampled |-> FALSE]
  /\ venueOrders \in {EmptyBag, One([side |-> "buy", price |-> 9990, pre |-> TRUE])}
  /\ procs = EmptyBag
  /\ stopDone = NoStop
  /\ startCalls = 0
  /\ limits \in Scenarios
  /\ exitCode = NotExited
  /\ quoted = NoQuote
  /\ lateSignals = 0

(***************************************************************************)
(* start()  (types.ts:179-247)                                             *)
(***************************************************************************)
\* a catch block that rejects without recording the failure in the state
StartFailKeepsState(p) ==
  /\ state' = state
  /\ procs' = End(p)

\* the catch block of start(): state = "error", the promise rejects
StartFail(p) ==
  /\ state' = "error"
  /\ procs' = End(p)

\* a start() without the guard on the state
StartCallAnyState ==
  /\ startCalls < limits.b.startCalls
  /\ startCalls' = startCalls + 1
  /\ state' = "connecting"
  /\ procs' = procs (+) One(Proc("start", "connect", <<>>, {}))
  /\ venueOrders' = BagOfAll(LAMBDA o : [o EXCEPT !.pre = TRUE], venueOrders)
  /\ stopDone' = NoStop
  /\ UNCHANGED <<market, currentOrders, mainLoopInterval, orderSyncInterval,
                 marginCheckInterval, leaked, sinceUpdate, errorCount,
                 lastMarginRatio, notional, feed, limits, exitCode, quoted, lateSignals>>

\* types.ts:180-183: start() on an orchestrator that is not stopped: a warning, return
StartCallIgnored ==
  /\ state # "stopped"
  /\ UNCHANGED vars

\* types.ts:180-191: the guard, state = "connecting", exchange.connect() issued
StartCall ==
  /\ state = "stopped"
  /\ startCalls < limits.b.startCalls
  /\ startCalls' = startCalls + 1
  /\ state' = "connecting"
  /\ procs' = procs (+) One(Proc("start", "connect", <<>>, {}))
  /\ venueOrders' = BagOfAll(LAMBDA o : [o EXCEPT !.pre = TRUE], venueOrders)
  /\ stopDone' = NoStop
  /\ UNCHANGED <<market, currentOrders, mainLoopInterval, orderSyncInterval,
                 marginCheckInterval, leaked, sinceUpdate, errorCount,
                 lastMarginRatio, notional, feed, limits, exitCode, quoted, lateSignals>>

\* types.ts:191-194: connect() settles; on success getMarkets() is issued
StartConnectDone(p, ok) ==
  /\ p.kind = "start" /\ p.pc = "connect"
  /\ IF ok
     THEN /\ procs' = Resume(p, [p EXCEPT !.pc = "getMarkets"])
          /\ UNCHANGED state
     ELSE StartFail(p)
  /\ UNCHANGED <<market, currentOrders, mainLoopInterval, orderSyncInterval,
                 marginCheckInterval, leaked, sinceUpdate, errorCount,
                 lastMarginRatio, notional, feed, venueOrders, stopDone, startCalls, limits, exitCode, quoted, lateSignals>>

\* types.ts:194-210: getMarkets() settles: it rejects, or no market matches the
\* symbol, or one does and subscribeOrderbook() is issued
StartMarketsDone(p, r) ==
  /\ p.kind = "start" /\ p.pc = "getMarkets"
  /\ IF r = "match"
     THEN /\ market' = "resolved"
          /\ procs' = Resume(p, [p EXCEPT !.pc = "subscribe"])
          /\ UNCHANGED state
     ELSE /\ market' = IF r = "nomatch" THEN "null" ELSE market
          /\ StartFail(p)
  /\ UNCHANGED <<currentOrders, mainLoopInterval, orderSyncInterval,
                 marginCheckInterval, leaked, sinceUpdate, errorCount,
                 lastMarginRatio, notional, feed, venueOrders, stopDone, startCalls, limits, exitCode, quoted, lateSignals>>

\* types.ts:210-215: subscribeOrderbook() settles; on success the feed connect is issued
StartSubscribeDone(p, ok) ==
  /\ p.kind = "start" /\ p.pc = "subscribe"
  /\ IF ok
     THEN /\ procs' = Resume(p, [p EXCEPT !.pc = "feedConnect"])
          /\ UNCHANGED state
     ELSE StartFail(p)
  /\ UNCHANGED <<market, currentOrders, mainLoopInterval, orderSyncInterval,
                 marginCheckInterval, leaked, sinceUpdate, errorCount,
                 lastMarginRatio, notional, feed, venueOrders, stopDone, startCalls, limits, exitCode, quoted, lateSignals>>

\* types.ts:215-222 and 299-314: fairPriceCalc.connect() settles; on success
\* state = "warming_up" and waitForWarmup starts polling
StartFeedConnectDone(p, ok) ==
  /\ p.kind = "start" /\ p.pc = "feedConnect"
  /\ IF ok
     THEN /\ feed' = feedConnect(feed)
          /\ state' = "warming_up"
          /\ procs' = Resume(p, [p EXCEPT !.pc = "warmup"])
     ELSE /\ StartFail(p)
          /\ UNCHANGED feed
  /\ UNCHANGED <<market, currentOrders, mainLoopInterval, orderSyncInterval,
                 marginCheckInterval, leaked, sinceUpdate, errorCount,
                 lastMarginRatio, notional, venueOrders, stopDone, startCalls, limits, exitCode, quoted, lateSignals>>

\* a start() that does not wait for the estimator
StartWarmupReadyNoWait(p) ==
  /\ p.kind = "start" /\ p.pc = "warmup"
  /\ state' = "running"
  /\ procs' = Resume(p, [p EXCEPT !.pc = "syncPosition"])
  /\ UNCHANGED <<market, currentOrders, mainLoopInterval, orderSyncInterval,
                 marginCheckInterval, leaked, sinceUpdate, errorCount,
                 lastMarginRatio, notional, feed, venueOrders, stopDone, startCalls, limits, exitCode, quoted, lateSignals>>

\* types.ts:301-303 and 225-229: a poll finds isReady(): state = "running" and
\* syncPosition() issues getPositions()
StartWarmupReady(p) ==
  /\ p.kind = "start" /\ p.pc = "warmup"
  /\ isReady
  /\ state' = "running"
  /\ procs' = Resume(p, [p EXCEPT !.pc = "syncPosition"])
  /\ UNCHANGED <<market, currentOrders, mainLoopInterval, orderSyncInterval,
                 marginCheckInterval, leaked, sinceUpdate, errorCount,
                 lastMarginRatio, notional, feed, venueOrders, stopDone, startCalls, limits, exitCode, quoted, lateSignals>>

\* types.ts:476-490 and 232: getPositions() settles (n is the snapshot's notional;
\* a failure is swallowed by syncPosition); cancelAllOrders() is issued
StartSyncPositionDone(p, ok, n) ==
  /\ p.kind = "start" /\ p.pc = "syncPosition"
  /\ notional' = IF ok THEN updatePosition(n) ELSE notional
  /\ procs' = Resume(p, [p EXCEPT !.pc = "cancelAll"])
  /\ UNCHANGED <<state, market, currentOrders, mainLoopInterval, orderSyncInterval,
                 marginCheckInterval, leaked, sinceUpdate, errorCount,
                 lastMarginRatio, feed, venueOrders, stopDone, startCalls, limits, exitCode, quoted, lateSignals>>

\* a cancel-all in start() whose failure is not swallowed
StartCancelDoneRethrows(p, ok) ==
  /\ p.kind = "start" /\ p.pc = "cancelAll"
  /\ cancelAllOrders(ok)
  /\ leaked' = leaked \cup {k \in {"quote", "sync", "margin"} :
                               \/ k = "quote" /\ ok /\ mainLoopInterval
                               \/ k = "sync" /\ ok /\ orderSyncInterval
                               \/ k = "margin" /\ ok /\ marginCheckInterval}
  /\ mainLoopInterval' = (ok \/ mainLoopInterval)
  /\ orderSyncInterval' = (ok \/ orderSyncInterval)
  /\ marginCheckInterval' = (ok \/ marginCheckInterval)
  /\ procs' = IF ok THEN End(p) (+) One(Proc("margin", "getAccount", <<>>, {}))
              ELSE End(p)
  /\ state' = IF ok THEN state ELSE "error"
  /\ UNCHANGED <<market, sinceUpdate, errorCount, lastMarginRatio,
                 notional, feed, stopDone, startCalls, limits, exitCode, quoted, lateSignals>>

\* types.ts:507-514 and 235-241, 319-354: the cancel-all settles (a failure is
\* swallowed), the three intervals are installed and the initial margin check
\* issues getAccount(); start() resolves
StartCancelDone(p, ok) ==
  /\ p.kind = "start" /\ p.pc = "cancelAll"
  /\ cancelAllOrders(ok)
  /\ leaked' = leaked \cup {k \in {"quote", "sync", "margin"} :
                               \/ k = "quote" /\ mainLoopInterval
                               \/ k = "sync" /\ orderSyncInterval
                               \/ k = "margin" /\ marginCheckInterval}
  /\ mainLoopInterval' = TRUE
  /\ orderSyncInterval' = TRUE
  /\ marginCheckInterval' = TRUE
  /\ procs' = End(p) (+) One(Proc("margin", "getAccount", <<>>, {}))
  /\ UNCHANGED <<state, market, sinceUpdate, errorCount, lastMarginRatio,
                 notional, feed, stopDone, startCalls, limits, exitCode, quoted, lateSignals>>

(***************************************************************************)
(* stop()  (types.ts:252-294)                                              *)
(***************************************************************************)
\* types.ts:286-293: fairPriceCalc.disconnect() (a throw is caught), state = "stopped"
StopFinish(p, log, feedOk) ==
  /\ feed' = IF feedOk THEN feedDisconnect(feed) ELSE feed
  /\ state' = "stopped"
  /\ stopDone' = [done |-> TRUE, cancelOk |-> "cancelOk" \in log]
  /\ procs' = End(p)

\* types.ts:253-273: the three intervals are cleared, cancelAllOrders() is issued
StopCall ==
  /\ Count("stop") < limits.b.stop
  /\ mainLoopInterval' = FALSE
  /\ orderSyncInterval' = FALSE
  /\ marginCheckInterval' = FALSE
  /\ procs' = procs (+) One(Proc("stop", "cancelAll", <<>>, {"cancelAll"}))
  /\ UNCHANGED <<state, market, currentOrders, leaked, sinceUpdate, errorCount,
                 lastMarginRatio, notional, feed, venueOrders, stopDone, startCalls, limits, exitCode, quoted, lateSignals>>

\* types.ts:273-280: the cancel-all settles; unsubscribeOrderbook() is issued
StopCancelDone(p, ok) ==
  /\ p.kind = "stop" /\ p.pc = "cancelAll"
  /\ cancelAllOrders(ok)
  /\ procs' = Resume(p, [p EXCEPT !.pc = "unsubscribe",
                                  !.log = p.log \cup {"unsubscribe"}
                                          \cup (IF ok THEN {"cancelOk"} ELSE {})])
  /\ UNCHANGED <<state, market, mainLoopInterval, orderSyncInterval,
                 marginCheckInterval, leaked, sinceUpdate, errorCount,
                 lastMarginRatio, notional, feed, stopDone, startCalls, limits, exitCode, quoted, lateSignals>>

\* types.ts:279-284: unsubscribeOrderbook() settles: on success disconnect() is
\* issued; a rejection lands in the catch that also guards disconnect()
StopUnsubscribeDone(p, ok, feedOk) ==
  /\ p.kind = "stop" /\ p.pc = "unsubscribe"
  /\ IF ok
     THEN /\ procs' = Resume(p, [p EXCEPT !.pc = "disconnect",
                                          !.log = p.log \cup {"disconnect"}])
          /\ UNCHANGED <<state, feed, stopDone>>
     ELSE StopFinish(p, p.log, feedOk)
  /\ UNCHANGED <<market, currentOrders, mainLoopInterval, orderSyncInterval,
                 marginCheckInterval, leaked, sinceUpdate, errorCount,
                 lastMarginRatio, notional, venueOrders, startCalls, limits, exitCode, quoted, lateSignals>>

\* types.ts:281-293: disconnect() settles, then the feed is disconnected
StopDisconnectDone(p, ok, feedOk) ==
  /\ p.kind = "stop" /\ p.pc = "disconnect"
  /\ StopFinish(p, p.log, feedOk)
  /\ UNCHANGED <<market, currentOrders, mainLoopInterval, orderSyncInterval,
                 marginCheckInterval, leaked, sinceUpdate, errorCount,
                 lastMarginRatio, notional, venueOrders, startCalls, limits, exitCode, quoted, lateSignals>>

(***************************************************************************)
(* The quoting tick  (types.ts:319-326, 397-450, 519-525)                  *)
(***************************************************************************)
\* the synchronous gates of runMainLoop, in the order of the code
PassesStateGate == state = "running"

\* a gate that lets every tick through
PassesThrottleAlways == TRUE

PassesThrottle == sinceUpdate >= updateThrottleMs

\* types.ts:398-406: not running, or throttled: nothing is touched
QuoteTickSkip ==
  /\ TimerLive("quote")
  /\ ~PassesStateGate \/ ~PassesThrottle
  /\ UNCHANGED vars

\* types.ts:407-430: lastUpdateTime is taken, then the tick returns on a null
\* fair price, on isAtMax(), or when shouldUpdateOrders() says no
QuoteTickReturn(fairPrice) ==
  /\ TimerLive("quote")
  /\ PassesStateGate /\ PassesThrottle
  /\ fairPrice \in getFairPrice
  /\ fairPrice = 0 \/ isAtMax \/ ~shouldUpdateOrders(fairPrice)
  /\ sinceUpdate' = 0
  /\ UNCHANGED <<state, market, currentOrders, mainLoopInterval, orderSyncInterval,
                 marginCheckInterval, leaked, errorCount, lastMarginRatio,
                 notional, feed, venueOrders, procs, stopDone, startCalls, limits, exitCode, quoted, lateSignals>>

\* a breaker that trips one error early
handleErrorEarly ==
  /\ errorCount' = errorCount + 1
  /\ state' = IF errorCount + 2 >= maxErrors THEN "paused" ELSE state

\* handleError (types.ts:519-525)
handleError ==
  /\ errorCount' = errorCount + 1
  /\ state' = IF errorCount + 1 >= maxErrors THEN "paused" ELSE state

\* types.ts:321-324 and 422-424: an unexpected exception while the quote is
\* computed rejects runMainLoop; the interval callback calls handleError()
QuoteTickThrow ==
  /\ TimerLive("quote")
  /\ PassesStateGate /\ PassesThrottle
  /\ isReady /\ ~isAtMax
  /\ errorCount < limits.b.errors
  /\ sinceUpdate' = 0
  /\ handleError
  /\ UNCHANGED <<market, currentOrders, mainLoopInterval, orderSyncInterval,
                 marginCheckInterval, leaked, lastMarginRatio, notional, feed,
                 venueOrders, procs, stopDone, startCalls, limits, exitCode, quoted, lateSignals>>

\* a tick without the isAtMax() gate
QuoteTickStartAtMax(fairPrice) ==
  /\ TimerLive("quote")
  /\ Count("quote") < limits.b.quote
  /\ PassesStateGate /\ PassesThrottle
  /\ fairPrice \in getFairPrice
  /\ fairPrice # 0 /\ shouldUpdateOrders(fairPrice)
  /\ sinceUpdate' = 0
  /\ procs' = procs (+) One(Proc("quote", "cancelAll",
                                 quoteToOrders(generateQuotes(fairPrice, notional)),
                                 {fairPrice}))
  /\ UNCHANGED <<state, market, currentOrders, mainLoopInterval, orderSyncInterval,
                 marginCheckInterval, leaked, errorCount, lastMarginRatio,
                 notional, feed, venueOrders, stopDone, startCalls, limits, exitCode, quoted, lateSignals>>

\* types.ts:398-433: every gate passed: the quote is computed and the tick
\* suspends in cancelAllOrders()
QuoteTickStart(fairPrice) ==
  /\ TimerLive("quote")
  /\ Count("quote") < limits.b.quote
  /\ PassesStateGate /\ PassesThrottle
  /\ fairPrice \in getFairPrice
  /\ fairPrice # 0 /\ ~isAtMax /\ shouldUpdateOrders(fairPrice)
  /\ sinceUpdate' = 0
  /\ procs' = procs (+) One(Proc("quote", "cancelAll",
                                 quoteToOrders(generateQuotes(fairPrice, notional)),
                                 {fairPrice}))
  /\ UNCHANGED <<state, market, currentOrders, mainLoopInterval, orderSyncInterval,
                 marginCheckInterval, leaked, errorCount, lastMarginRatio,
                 notional, feed, venueOrders, stopDone, startCalls, limits, exitCode, quoted, lateSignals>>

\* what runMainLoop does once an await of it settles with `rest` still to place:
\* the next placeOrder is issued, or the error count is reset and the tick ends
QuoteContinue(p, rest) ==
  IF rest = <<>>
  THEN /\ errorCount' = 0
       /\ procs' = End(p)
  ELSE /\ procs' = Resume(p, [p EXCEPT !.pc = "place", !.todo = rest])
       /\ UNCHANGED errorCount

\* types.ts:433-439 and 507-514: the tick's cancel-all settles (a failure is swallowed)
QuoteCancelDone(p, ok) ==
  /\ p.kind = "quote" /\ p.pc = "cancelAll"
  /\ cancelAllOrders(ok)
  /\ QuoteContinue(p, p.todo)
  /\ UNCHANGED <<state, market, mainLoopInterval, orderSyncInterval,
                 marginCheckInterval, leaked, sinceUpdate, lastMarginRatio,
                 notional, feed, stopDone, startCalls, limits, exitCode, quoted, lateSignals>>

\* a placement loop without the try/catch around placeOrder: a rejection
\* leaves runMainLoop and reaches handleError
QuotePlaceDoneUncaught(p, ok) ==
  /\ p.kind = "quote" /\ p.pc = "place"
  /\ ok => BagCardinality(venueOrders) < MaxVenueOrders
  /\ IF ok
     THEN /\ venueOrders' = placeOrder(Head(p.todo))
          /\ QuoteContinue(p, Tail(p.todo))
          /\ UNCHANGED state
     ELSE /\ handleError
          /\ procs' = End(p)
          /\ UNCHANGED venueOrders
  /\ UNCHANGED <<market, currentOrders, mainLoopInterval, orderSyncInterval,
                 marginCheckInterval, leaked, sinceUpdate, lastMarginRatio,
                 notional, feed, stopDone, startCalls, limits, exitCode, quoted, lateSignals>>

\* types.ts:437-449: a placeOrder settles (a failure is logged), the loop goes on
QuotePlaceDone(p, ok) ==
  /\ p.kind = "quote" /\ p.pc = "place"
  /\ ok => BagCardinality(venueOrders) < MaxVenueOrders
  /\ venueOrders' = IF ok THEN placeOrder(Head(p.todo)) ELSE venueOrders
  /\ QuoteContinue(p, Tail(p.todo))
  /\ UNCHANGED <<state, market, currentOrders, mainLoopInterval, orderSyncInterval,
                 marginCheckInterval, leaked, sinceUpdate, lastMarginRatio,
                 notional, feed, stopDone, startCalls, limits, exitCode, quoted, lateSignals>>

(***************************************************************************)
(* The sync tick  (types.ts:331-337, 476-502)                              *)
(***************************************************************************)
\* types.ts:332-333, 497: the interval fires, getOpenOrders(symbol) is issued
SyncTickFire ==
  /\ TimerLive("sync")
  /\ Count("sync") < limits.b.sync
  /\ procs' = procs (+) One(Proc("sync", "getOpenOrders", <<>>, {}))
  /\ UNCHANGED <<state, market, currentOrders, mainLoopInterval, orderSyncInterval,
                 marginCheckInterval, leaked, sinceUpdate, errorCount,
                 lastMarginRatio, notional, feed, venueOrders, stopDone, startCalls, limits, exitCode, quoted, lateSignals>>

\* a sync that forgets the cached orders when getOpenOrders fails
SyncOrdersDoneClears(p, ok) ==
  /\ p.kind = "sync" /\ p.pc = "getOpenOrders"
  /\ IF ok
     THEN /\ currentOrders' = openOrders
          /\ procs' = Resume(p, [p EXCEPT !.pc = "syncPosition"])
     ELSE /\ procs' = End(p)
          /\ currentOrders' = {}
  /\ UNCHANGED <<state, market, mainLoopInterval, orderSyncInterval,
                 marginCheckInterval, leaked, sinceUpdate, errorCount,
                 lastMarginRatio, notional, feed, venueOrders, stopDone, startCalls, limits, exitCode, quoted, lateSignals>>

\* types.ts:497-501: getOpenOrders settles: on success the list replaces
\* currentOrders and syncPosition() issues getPositions(); a failure is caught
SyncOrdersDone(p, ok) ==
  /\ p.kind = "sync" /\ p.pc = "getOpenOrders"
  /\ IF ok
     THEN /\ currentOrders' = openOrders
          /\ procs' = Resume(p, [p EXCEPT !.pc = "syncPosition"])
     ELSE /\ procs' = End(p)
          /\ UNCHANGED currentOrders
  /\ UNCHANGED <<state, market, mainLoopInterval, orderSyncInterval,
                 marginCheckInterval, leaked, sinceUpdate, errorCount,
                 lastMarginRatio, notional, feed, venueOrders, stopDone, startCalls, limits, exitCode, quoted, lateSignals>>

\* types.ts:476-490: getPositions settles inside syncPosition
SyncPositionDone(p, ok, n) ==
  /\ p.kind = "sync" /\ p.pc = "syncPosition"
  /\ notional' = IF ok THEN updatePosition(n) ELSE notional
  /\ procs' = End(p)
  /\ UNCHANGED <<state, market, currentOrders, mainLoopInterval, orderSyncInterval,
                 marginCheckInterval, leaked, sinceUpdate, errorCount,
                 lastMarginRatio, feed, venueOrders, stopDone, startCalls, limits, exitCode, quoted, lateSignals>>

(***************************************************************************)
(* The margin check  (types.ts:342-392)                                    *)
(***************************************************************************)
\* a ratio that drops to 0 when the account reports no equity
MarginRatioAfterZero(equity, availableMargin) ==
  IF equity > 0 THEN (availableMargin * 100) \div equity ELSE 0

\* types.ts:365-367: the ratio after a getAccount() answer, in percent
MarginRatioAfter(equity, availableMargin) ==
  IF equity > 0 THEN (availableMargin * 100) \div equity ELSE lastMarginRatio

\* a check that pauses, and cancels, in whatever state it finds a low ratio
MarginDecisionAnyState(st, ratio) ==
  IF ratio < minMarginRatio
  THEN "pause"
  ELSE IF st = "paused" /\ ratio * 10 >= minMarginRatio * 12 THEN "resume" ELSE "none"

\* a check that resumes as soon as the ratio is back at minMarginRatio
MarginDecisionNoBuffer(st, ratio) ==
  IF ratio < minMarginRatio
  THEN IF st = "running" THEN "pause" ELSE "none"
  ELSE IF st = "paused" THEN "resume" ELSE "none"

\* types.ts:369-388: what the check does on `ratio` when the state is st
MarginDecision(st, ratio) ==
  IF ratio < minMarginRatio
  THEN IF st = "running" THEN "pause" ELSE "none"
  ELSE IF st = "paused" /\ ratio * 10 >= minMarginRatio * 12 THEN "resume" ELSE "none"

\* types.ts:344-346, 361: the interval fires, getAccount() is issued
MarginTickFire ==
  /\ TimerLive("margin")
  /\ Count("margin") < limits.b.margin
  /\ procs' = procs (+) One(Proc("margin", "getAccount", <<>>, {}))
  /\ UNCHANGED <<state, market, currentOrders, mainLoopInterval, orderSyncInterval,
                 marginCheckInterval, leaked, sinceUpdate, errorCount,
                 lastMarginRatio, notional, feed, venueOrders, stopDone, startCalls, limits, exitCode, quoted, lateSignals>>

\* types.ts:389-391: getAccount() rejects: caught, nothing changes
MarginAccountFail(p) ==
  /\ p.kind = "margin" /\ p.pc = "getAccount"
  /\ procs' = End(p)
  /\ UNCHANGED <<state, market, currentOrders, mainLoopInterval, orderSyncInterval,
                 marginCheckInterval, leaked, sinceUpdate, errorCount,
                 lastMarginRatio, notional, feed, venueOrders, stopDone, startCalls, limits, exitCode, quoted, lateSignals>>

\* types.ts:361-388: getAccount() answers: the ratio is stored, then the check
\* pauses (and issues the cancel-all), resumes, or leaves the state
MarginAccountDone(p, equity, availableMargin) ==
  /\ p.kind = "margin" /\ p.pc = "getAccount"
  /\ lastMarginRatio' = MarginRatioAfter(equity, availableMargin)
  /\ LET d == MarginDecision(state, lastMarginRatio')
     IN /\ state' = CASE d = "pause" -> "paused"
                      [] d = "resume" -> "running"
                      [] OTHER -> state
        /\ procs' = IF d = "pause"
                    THEN Resume(p, [p EXCEPT !.pc = "cancelAll"])
                    ELSE End(p)
  /\ UNCHANGED <<market, currentOrders, mainLoopInterval, orderSyncInterval,
                 marginCheckInterval, leaked, sinceUpdate, errorCount,
                 notional, feed, venueOrders, stopDone, startCalls, limits, exitCode, quoted, lateSignals>>

\* types.ts:377 and 507-514: the check's cancel-all settles; the check ends
MarginCancelDone(p, ok) ==
  /\ p.kind = "margin" /\ p.pc = "cancelAll"
  /\ cancelAllOrders(ok)
  /\ procs' = End(p)
  /\ UNCHANGED <<state, market, mainLoopInterval, orderSyncInterval,
                 marginCheckInterval, leaked, sinceUpdate, errorCount,
                 lastMarginRatio, notional, feed, stopDone, startCalls, limits, exitCode, quoted, lateSignals>>

(***************************************************************************)
(* The environment.                                                        *)
(***************************************************************************)
\* wall-clock time passes (Date.now() in types.ts:403)
ClockTick ==
  /\ sinceUpdate < updateThrottleMs
  /\ sinceUpdate' = sinceUpdate + 1
  /\ UNCHANGED <<state, market, currentOrders, mainLoopInterval, orderSyncInterval,
                 marginCheckInterval, leaked, errorCount, lastMarginRatio,
                 notional, feed, venueOrders, procs, stopDone, startCalls, limits, exitCode, quoted, lateSignals>>

\* warmupSeconds have passed since connectTime
WarmupElapses ==
  /\ ~feed.warm
  /\ feed' = [feed EXCEPT !.warm = TRUE]
  /\ UNCHANGED <<state, market, currentOrders, mainLoopInterval, orderSyncInterval,
                 marginCheckInterval, leaked, sinceUpdate, errorCount,
                 lastMarginRatio, notional, venueOrders, procs, stopDone, startCalls, limits, exitCode, quoted, lateSignals>>

\* a price sample arrives
OnSample ==
  /\ feed.connected /\ ~feed.sampled
  /\ feed' = [feed EXCEPT !.sampled = TRUE]
  /\ UNCHANGED <<state, market, currentOrders, mainLoopInterval, orderSyncInterval,
                 marginCheckInterval, leaked, sinceUpdate, errorCount,
                 lastMarginRatio, notional, venueOrders, procs, stopDone, startCalls, limits, exitCode, quoted, lateSignals>>

Next ==
  \/ StartCall
  \/ StartCallIgnored
  \/ StopCall
  \/ QuoteTickSkip
  \/ QuoteTickThrow
  \/ \E fairPrice \in limits.prices \cup {0} :
       \/ QuoteTickReturn(fairPrice)
       \/ QuoteTickStart(fairPrice)
  \/ SyncTickFire
  \/ MarginTickFire
  \/ ClockTick
  \/ WarmupElapses
  \/ OnSample
  \/ \E p \in BagToSet(procs) :
       \/ \E ok \in BOOLEAN :
            \/ StartConnectDone(p, ok)
            \/ StartSubscribeDone(p, ok)
            \/ StartFeedConnectDone(p, ok)
            \/ SyncOrdersDone(p, ok)
       \/ \E r \in {"fail", "nomatch", "match"} : StartMarketsDone(p, r)
       \/ StartWarmupReady(p)
       \/ \E ok \in BOOLEAN, n \in limits.notionals :
            \/ StartSyncPositionDone(p, ok, n)
            \/ SyncPositionDone(p, ok, n)
       \/ \E ok \in BOOLEAN :
            \/ StartCancelDone(p, ok)
            \/ StopCancelDone(p, ok)
            \/ QuoteCancelDone(p, ok)
            \/ QuotePlaceDone(p, ok)
            \/ MarginCancelDone(p, ok)
       \/ \E ok \in BOOLEAN, feedOk \in BOOLEAN :
            \/ StopUnsubscribeDone(p, ok, feedOk)
            \/ StopDisconnectDone(p, ok, feedOk)
       \/ MarginAccountFail(p)
       \/ \E equity \in Equities, availableMargin \in limits.margins :
            MarginAccountDone(p, equity, availableMargin)

Spec == Init /\ [][Next]_vars

(***************************************************************************)
(* What a step does, read off the invocations before and after it.         *)
(***************************************************************************)
\* the invocation p took this step
Stepped(p) == CopiesIn(p, procs') < CopiesIn(p, procs)

\* the invocation is suspended at q after this step and was not before it
Arrived(q) == CopiesIn(q, procs') > CopiesIn(q, procs)

\* this step issues exchange.placeOrder (types.ts:439)
IssuesPlace == \E q \in BagToSet(procs') : q.pc = "place" /\ Arrived(q)

\* a margin check whose cancel-all has not settled yet
MarginCancelPending == \E p \in InFlight("margin") : p.pc = "cancelAll"

\* this step is a margin check deciding on the ratio it stored (types.ts:365-388)
MarginDecides == \E p \in InFlight("margin") : p.pc = "getAccount" /\ Stepped(p)

(***************************************************************************)
(* Margin protection.                                                      *)
(***************************************************************************)
\* a margin check that saw the ratio below minMarginRatio has paused the
\* orchestrator and completed
PausedByMargin ==
  state = "paused" /\ lastMarginRatio < minMarginRatio /\ ~MarginCancelPending

\* C1: once a margin check that saw the ratio below minMarginRatio in state
\* running has paused the orchestrator and completed, no order for the symbol
\* remains on the venue: the venue it left empty stays empty while paused.
C1_PausedByMarginLeavesNoOrder ==
  [][(PausedByMargin /\ venueOrders = EmptyBag /\ state' = "paused")
       => venueOrders' = EmptyBag]_vars

\* C2: while the state is paused no placeOrder is issued, whatever tick is in flight.
C2_NoPlaceWhilePaused == [][IssuesPlace => state # "paused"]_vars

StoppedClean ==
  /\ stopDone.done /\ stopDone.cancelOk
  /\ state = "stopped" /\ Count("start") = 0
  /\ ~TimerLive("quote") /\ ~TimerLive("sync") /\ ~TimerLive("margin")

\* C4: after a stop() whose cancel-all succeeded has returned, no order placed by
\* the orchestrator rests on the venue and none is placed until a later start(),
\* whatever ticks were in flight when stop() was invoked.
C4_StopLeavesNoOrder ==
  /\ [](StoppedClean => \A o \in BagToSet(venueOrders) : o.pre)
  /\ [][IssuesPlace => ~StoppedClean]_vars

\* C5: once a stop() has returned the state is stopped and no periodic activity
\* is installed, and it stays so until a start() called after that stop().
C5_StopIsFinal ==
  stopDone.done =>
    /\ state = "stopped"
    /\ ~TimerLive("quote") /\ ~TimerLive("sync") /\ ~TimerLive("margin")

\* this step is the stop() invocation p returning
StopReturns(p) == p.kind = "stop" /\ Stepped(p) /\ Count("stop")' < Count("stop")

\* C6: a stop() that returns has attempted the cancel-all, the market-data
\* unsubscribe and the exchange disconnect, whichever of them failed (the feed
\* disconnect is attempted in the returning step itself).
C6_StopAttemptsEveryStep ==
  [][\A p \in InFlight("stop") :
       StopReturns(p) => {"cancelAll", "unsubscribe", "disconnect"} \subseteq p.log]_vars

(***************************************************************************)
(* Startup.                                                                *)
(***************************************************************************)
\* this step is the start() invocation p settling one of its setup calls
StartSetupStep(p) ==
  /\ p.kind = "start" /\ Stepped(p)
  /\ p.pc \in {"connect", "getMarkets", "subscribe", "feedConnect"}

\* ... and failing on it
StartFailed(p) == StartSetupStep(p) /\ Count("start")' < Count("start")

\* C7: a start() whose exchange connect, market resolution or feed connect fails
\* sets the state to error, and up to and including that step it has installed
\* no timer and issued no placeOrder.
C7_FailedStartInstallsNothing ==
  [][\A p \in InFlight("start") :
       StartSetupStep(p) =>
         /\ UNCHANGED <<mainLoopInterval, orderSyncInterval, marginCheckInterval, leaked>>
         /\ ~IssuesPlace
         /\ StartFailed(p) => state' = "error"]_vars

\* a start() has failed after the market was resolved
C7_Witness ==
  /\ state = "error" /\ market = "resolved" /\ procs = EmptyBag
  /\ ~TimerLive("quote") /\ ~TimerLive("sync") /\ ~TimerLive("margin")

\* C8: while the quoting timer is installed, no order that rested on the venue
\* before start() is still resting.
C8_NoOrderSurvivesStart ==
  TimerLive("quote") => \A o \in BagToSet(venueOrders) : ~o.pre

\* this step installs the quoting timer
InstallsQuoteTimer == ~mainLoopInterval /\ mainLoopInterval'

\* C9: no placeOrder before the estimator reported ready: start() leaves the
\* warm-up wait only on a ready estimator and installs the timers after it, a
\* tick goes on to cancel and place only on a non-null price of a ready
\* estimator, and every placeOrder comes from such a tick.
C9_NoPlaceBeforeReady ==
  [][/\ \A p \in InFlight("start") : (p.pc = "warmup" /\ Stepped(p)) => isReady
     /\ InstallsQuoteTimer
          => \E p \in InFlight("start") : p.pc = "cancelAll" /\ Stepped(p)
     /\ \A q \in BagToSet(procs') :
          /\ (q.kind = "quote" /\ q.pc = "cancelAll" /\ Arrived(q))
               => isReady /\ 0 \notin q.log
          /\ (q.pc = "place" /\ Arrived(q)) => q.kind = "quote" /\ 0 \notin q.log]_vars

\* a tick of a ready estimator is placing an order
C9_Witness == isReady /\ \E q \in InFlight("quote") : q.pc = "place"

(***************************************************************************)
(* Quoting.                                                                *)
(***************************************************************************)
\* orders placed by earlier ticks rest on the venue, nothing else does, and
\* none is stale against fairPrice
RestingAndFresh(fairPrice) ==
  /\ venueOrders # EmptyBag
  /\ \A o \in BagToSet(venueOrders) :
       ~o.pre /\ ~isOrderStale(o.price, o.side, fairPrice)

\* C10: a tick that starts in state running while orders rest on the venue and
\* none is stale against the fair price it reads issues no cancelAllOrders and
\* no placeOrder.
C10_NoChurn ==
  [][\A q \in BagToSet(procs') :
       (q.kind = "quote" /\ Arrived(q) /\ q.pc = "cancelAll")
         => \A fairPrice \in q.log : ~RestingAndFresh(fairPrice)]_vars

(***************************************************************************)
(* Overlapping quoting ticks: the lifecycle without stop(), with up to     *)
(* MaxOverlap quoting ticks in flight and a venue that carries out every   *)
(* cancelAllOrders it is sent.                                             *)
(***************************************************************************)
Overlapping ==
  [b |-> [Bounds(0, 0) EXCEPT !.quote = MaxOverlap],
   prices |-> {CHOOSE f \in FairPrices : TRUE}, notionals |-> {0}, margins |-> {12}]

InitOverlap ==
  /\ state = "stopped"
  /\ market = "null"
  /\ currentOrders = {}
  /\ mainLoopInterval = FALSE
  /\ orderSyncInterval = FALSE
  /\ marginCheckInterval = FALSE
  /\ leaked = {}
  /\ sinceUpdate = updateThrottleMs
  /\ errorCount = 0
  /\ lastMarginRatio = 100
  /\ notional = 0
  /\ feed = [connected |-> FALSE, warm |-> FALSE, sampled |-> FALSE]
  /\ venueOrders \in {EmptyBag, One([side |-> "buy", price |-> 9990, pre |-> TRUE])}
  /\ procs = EmptyBag
  /\ stopDone = NoStop
  /\ startCalls = 0
  /\ limits = Overlapping
  /\ exitCode = NotExited
  /\ quoted = NoQuote
  /\ lateSignals = 0

NextOverlap ==
  \/ StartCall
  \/ QuoteTickSkip
  \/ \E fairPrice \in limits.prices \cup {0} :
       \/ QuoteTickReturn(fairPrice)
       \/ QuoteTickStart(fairPrice)
  \/ SyncTickFire
  \/ MarginTickFire
  \/ ClockTick
  \/ WarmupElapses
  \/ OnSample
  \/ \E p \in BagToSet(procs) :
       \/ \E ok \in BOOLEAN :
            \/ StartConnectDone(p, ok)
            \/ StartSubscribeDone(p, ok)
            \/ StartFeedConnectDone(p, ok)
            \/ SyncOrdersDone(p, ok)
            \/ QuotePlaceDone(p, ok)
       \/ \E r \in {"fail", "nomatch", "match"} : StartMarketsDone(p, r)
       \/ StartWarmupReady(p)
       \/ \E ok \in BOOLEAN, n \in limits.notionals :
            \/ StartSyncPositionDone(p, ok, n)
            \/ SyncPositionDone(p, ok, n)
       \/ StartCancelDone(p, TRUE)
       \/ QuoteCancelDone(p, TRUE)
       \/ MarginAccountFail(p)
       \/ \E equity \in Equities, availableMargin \in limits.margins :
            MarginAccountDone(p, equity, availableMargin)

SpecOverlap == InitOverlap /\ [][NextOverlap]_vars

\* the orders of `side` on the venue that the orchestrator placed since start()
Placed(side) ==
  BagCardinality([o \in {x \in BagToSet(venueOrders) : x.side = side /\ ~x.pre}
                    |-> venueOrders[o]])

\* C11: overlapping quoting ticks are safe: once no quoting tick is in flight
\* the venue holds at most one bid and at most one ask of the orchestrator.
C11_OverlapLeavesOneQuote ==
  Count("quote") = 0 => Placed("buy") <= 1 /\ Placed("sell") <= 1

(***************************************************************************)
(* What the sync tick and the margin check do to the venue.                *)
(***************************************************************************)
\* this step issues a call that changes the venue on behalf of a `kind` invocation
IssuesVenueChange(kind) ==
  \E q \in BagToSet(procs') :
    q.kind = kind /\ q.pc \in {"cancelAll", "place"} /\ Arrived(q)

\* C12 as stated: neither the margin check nor the sync tick ever issues
\* placeOrder or cancelAllOrders.
C12_ReadOnlyTicks ==
  [][~IssuesVenueChange("margin") /\ ~IssuesVenueChange("sync")]_vars

\* C12 amended: the sync tick issues no call that changes the venue and none
\* of its steps changes it; the margin check issues no placeOrder, and issues
\* cancelAllOrders only in the step that moves the state from running to paused.
C12_ReadOnlyExceptPause ==
  [][/\ ~IssuesVenueChange("sync")
     /\ \A p \in InFlight("sync") : Stepped(p) => UNCHANGED venueOrders
     /\ \A q \in BagToSet(procs') :
          (q.kind = "margin" /\ Arrived(q))
            => /\ q.pc # "place"
               /\ q.pc = "cancelAll" => state = "running" /\ state' = "paused"]_vars

\* a margin check has paused and is cancelling while a sync tick is in flight
\* and orders rest on the venue
C12_Witness ==
  /\ state = "paused" /\ MarginCancelPending
  /\ Count("sync") > 0 /\ venueOrders # EmptyBag

(***************************************************************************)
(* The error circuit breaker.                                              *)
(***************************************************************************)
\* this step is handleError() counting a failed quoting tick (types.ts:520)
CountsError == errorCount' = errorCount + 1

\* C13: the breaker changes the state only when errorCount has reached
\* maxErrors, and then to paused; below that a failing tick is counted and
\* the state is left as it is.
C13_BreakerTripsAtMaxErrors ==
  [][CountsError =>
       IF errorCount' >= maxErrors THEN state' = "paused" ELSE state' = state]_vars

\* the breaker has tripped on the maxErrors-th failure
C13_Witness == errorCount = maxErrors /\ state = "paused"

\* this step is a quoting iteration completing without an exception: it
\* returns after the throttle gate and before its first await, or it runs to
\* the end of runMainLoop
QuoteIterationCompletes ==
  \/ sinceUpdate # 0 /\ sinceUpdate' = 0 /\ procs' = procs /\ ~CountsError
  \/ Count("quote")' < Count("quote")

\* C14: after any quoting iteration that completes without raising an
\* exception errorCount is 0.
C14_CompletedIterationResetsCount ==
  [][QuoteIterationCompletes => errorCount' = 0]_vars

\* the breaker has tripped: handleError paused the orchestrator on the
\* failure that brought errorCount to maxErrors
PausedByBreaker == state = "paused" /\ errorCount >= maxErrors

\* C15: once the breaker has moved the orchestrator to paused, no step (in
\* particular no margin check observing a ratio of at least 1.2 times
\* minMarginRatio) returns the state to running.
C15_BreakerPauseSurvivesMargin ==
  [][PausedByBreaker => state' # "running"]_vars

(***************************************************************************)
(* Placement failures inside a tick  (types.ts:435-450)                    *)
(***************************************************************************)
\* this step settles the placeOrder of p and the venue has rejected it
PlaceFails(p) ==
  /\ p.kind = "quote" /\ p.pc = "place"
  /\ Stepped(p)
  /\ venueOrders' = venueOrders

\* C16: a placeOrder failure for one intent does not leave the tick (the
\* state is unchanged and errorCount is not incremented); the placement of
\* the remaining intent is attempted, and after the last intent the tick
\* ends normally with errorCount reset.
C16_PlaceFailureIsContained ==
  [][\A p \in InFlight("quote") :
       PlaceFails(p)
         => /\ ~CountsError
            /\ state' = state
            /\ IF Len(p.todo) > 1
               THEN Arrived([p EXCEPT !.todo = Tail(p.todo)])
               ELSE Count("quote")' < Count("quote") /\ errorCount' = 0]_vars

\* the bid of a two-sided quote was rejected and the ask is being placed
C16_Witness ==
  /\ state = "running" /\ notional = 0 /\ errorCount = 0
  /\ Count("start") = 0 /\ Count("stop") = 0 /\ Count("margin") = 0
  /\ ~stopDone.done
  /\ Placed("buy") = 0
  /\ \E p \in InFlight("quote") :
       p.pc = "place" /\ Len(p.todo) = 1 /\ Head(p.todo).side = "sell"

(***************************************************************************)
(* The hard position limit  (types.ts:416-420)                             *)
(***************************************************************************)
\* the tracked exposure is long and at the hard limit while quoting is on
AtLongLimit == state = "running" /\ notional >= maxPositionUsd

\* C17: at the hard position limit on the long side, after a quoting tick
\* the venue holds no bid (the increasing side) and still holds an ask (the
\* reducing side).
C17_LimitQuotesReducingSideOnly ==
  [][AtLongLimit /\ QuoteIterationCompletes
       => /\ \A o \in BagToSet(venueOrders') : o.side # "buy"
          /\ \E o \in BagToSet(venueOrders') : o.side = "sell"]_vars

(***************************************************************************)
(* The throttle gate  (types.ts:402-407)                                   *)
(***************************************************************************)
\* this step is a quoting tick acting beyond the throttle gate: it issues its
\* first venue call, or it throws and is counted by handleError
ActsPastGate ==
  \/ \E q \in BagToSet(procs') :
       q.kind = "quote" /\ q.pc = "cancelAll" /\ Arrived(q)
  \/ CountsError

\* C18: a quoting tick gets past the throttle gate only when at least
\* updateThrottleMs have passed since the last tick that got past it, and it
\* restarts the throttle clock; a tick arriving sooner calls nothing.
C18_ThrottleSpacesTicks ==
  [][ActsPastGate => sinceUpdate >= updateThrottleMs /\ sinceUpdate' = 0]_vars

\* a second tick has got past the gate while the ask of an earlier tick rests,
\* and the interval fires again before updateThrottleMs have passed
C18_Witness ==
  /\ state = "running" /\ TimerLive("quote")
  /\ sinceUpdate < updateThrottleMs
  /\ Placed("sell") >= 1
  /\ \E p \in InFlight("quote") : p.pc = "cancelAll"

(***************************************************************************)
(* Market-data subscription in start()  (types.ts:209-218, 242-246)        *)
(***************************************************************************)
\* this step settles the subscribeOrderbook() call of the start() invocation p
SubscribeSettles(p) == p.kind = "start" /\ p.pc = "subscribe" /\ Stepped(p)

\* C19: whatever the outcome of subscribeOrderbook, start() goes on to the
\* price-feed connection (on its way to warming_up and running) and does not
\* fail.
C19_SubscribeIsBestEffort ==
  [][\A p \in InFlight("start") :
       SubscribeSettles(p)
         => /\ Arrived([p EXCEPT !.pc = "feedConnect"])
            /\ state' # "error"]_vars

(***************************************************************************)
(* The process entry point  (cli/bot.ts:64-111).  mm.start() is called     *)
(* once at load; SIGINT and SIGTERM run shutdown(), which calls mm.stop()  *)
(* once (isShuttingDown) and exits 0 when it has resolved; the catch       *)
(* handler of mm.start() exits 1.  A promise reaction runs before any      *)
(* timer or network callback, so nothing else steps while one is pending.  *)
(***************************************************************************)
BotRun ==
  [b |-> [Bounds(MaxStops, 0) EXCEPT !.stop = MaxStops + 1],
   prices |-> {CHOOSE f \in FairPrices : TRUE}, notionals |-> {0}, margins |-> {12}]

InitBot ==
  /\ state = "stopped"
  /\ market = "null"
  /\ currentOrders = {}
  /\ mainLoopInterval = FALSE
  /\ orderSyncInterval = FALSE
  /\ marginCheckInterval = FALSE
  /\ leaked = {}
  /\ sinceUpdate = updateThrottleMs
  /\ errorCount = 0
  /\ lastMarginRatio = 100
  /\ notional = 0
  /\ feed = [connected |-> FALSE, warm |-> FALSE, sampled |-> FALSE]
  /\ venueOrders \in {EmptyBag, One([side |-> "buy", price |-> 9990, pre |-> TRUE])}
  /\ procs = EmptyBag
  /\ stopDone = NoStop
  /\ startCalls = 0
  /\ limits = BotRun
  /\ exitCode = NotExited
  /\ quoted = NoQuote
  /\ lateSignals = 0

\* bot.ts:92-93, 108: the promise of mm.start() has rejected
StartRejected == state = "error"

\* bot.ts:77-78: the mm.stop() awaited by shutdown() has resolved
ShutdownStopped == stopDone.done

\* the process is alive and no promise reaction of bot.ts is pending
BotIdle == exitCode = NotExited /\ ~StartRejected /\ ~ShutdownStopped

\* bot.ts:108-111: the catch handler of mm.start()
BotStartCatch ==
  /\ exitCode = NotExited
  /\ StartRejected
  /\ exitCode' = <<1>>
  /\ UNCHANGED <<state, market, currentOrders, mainLoopInterval, orderSyncInterval,
                 marginCheckInterval, leaked, sinceUpdate, errorCount, lastMarginRatio,
                 notional, feed, venueOrders, procs, stopDone, startCalls, limits, quoted, lateSignals>>

\* a shutdown() without the isShuttingDown guard
BotShutdownNoGuard ==
  /\ BotIdle
  /\ startCalls > 0
  /\ StopCall

\* bot.ts:70-71, 86-87: a signal arrives while isShuttingDown is set (it is set
\* in the step that calls mm.stop() and never reset): shutdown() returns
BotSignalIgnored ==
  /\ BotIdle
  /\ startCalls > 0
  /\ Count("stop") > 0
  /\ lateSignals < MaxSignals
  /\ lateSignals' = lateSignals + 1
  /\ UNCHANGED <<state, market, currentOrders, mainLoopInterval, orderSyncInterval,
                 marginCheckInterval, leaked, sinceUpdate, errorCount, lastMarginRatio,
                 notional, feed, venueOrders, procs, stopDone, startCalls, limits,
                 exitCode, quoted>>

\* bot.ts:68-77, 86-87: a signal arrives, shutdown() calls mm.stop() once
BotShutdown ==
  /\ BotIdle
  /\ startCalls > 0
  /\ Count("stop") = 0
  /\ StopCall

\* bot.ts:78-79: mm.stop() has resolved, shutdown() exits 0
BotShutdownExit ==
  /\ exitCode = NotExited
  /\ ~StartRejected /\ ShutdownStopped
  /\ exitCode' = <<0>>
  /\ UNCHANGED <<state, market, currentOrders, mainLoopInterval, orderSyncInterval,
                 marginCheckInterval, leaked, sinceUpdate, errorCount, lastMarginRatio,
                 notional, feed, venueOrders, procs, stopDone, startCalls, limits, quoted, lateSignals>>

NextBot ==
  \/ BotIdle /\ StartCall
  \/ BotShutdown
  \/ BotSignalIgnored
  \/ BotStartCatch
  \/ BotShutdownExit
  \/ BotIdle /\ QuoteTickSkip
  \/ \E fairPrice \in limits.prices \cup {0} :
       BotIdle /\ QuoteTickStart(fairPrice)
  \/ BotIdle /\ ClockTick
  \/ BotIdle /\ WarmupElapses
  \/ BotIdle /\ OnSample
  \/ \E p \in BagToSet(procs) :
       /\ BotIdle
       /\ \/ \E ok \in BOOLEAN :
               \/ StartConnectDone(p, ok)
               \/ StartSubscribeDone(p, ok)
               \/ StartFeedConnectDone(p, ok)
          \/ \E r \in {"fail", "nomatch", "match"} : StartMarketsDone(p, r)
          \/ StartWarmupReady(p)
          \/ \E ok \in BOOLEAN, n \in limits.notionals :
               StartSyncPositionDone(p, ok, n)
          \/ \E ok \in BOOLEAN :
               \/ StartCancelDone(p, ok)
               \/ StopCancelDone(p, ok)
               \/ QuoteCancelDone(p, ok)
               \/ QuotePlaceDone(p, ok)
          \/ \E ok \in BOOLEAN, feedOk \in BOOLEAN :
               \/ StopUnsubscribeDone(p, ok, feedOk)
               \/ StopDisconnectDone(p, ok, feedOk)

SpecBot == InitBot /\ [][NextBot]_vars

\* mm.stop() has been called: it is in flight or it has returned
StopAttempted == Count("stop") > 0 \/ stopDone.done

\* C20: when start() fails the entry point attempts mm.stop() before it
\* exits non-zero.
C20_FailedStartStopsBeforeExit ==
  [][exitCode = NotExited /\ exitCode' = <<1>> => StopAttempted]_vars

(***************************************************************************)
(* The Aftermath adapter's cancelAllOrders(symbol)                         *)
(* (exchanges/aftermath/index.ts:225-238).  The venue holds orders         *)
(* [market, id]; an invocation is a record of procs whose todo is the list *)
(* of ids fetchOpenOrders answered with and whose log holds the requests   *)
(* it has issued.  An invocation that has settled stays in procs with pc   *)
(* "returned" or "threw".                                                  *)
(***************************************************************************)
\* the market of the symbol the calls are made for, and another market
chId == "BTC"

VenueBook == {[market |-> "BTC", id |-> 1], [market |-> "BTC", id |-> 2],
              [market |-> "ETH", id |-> 3]}

\* fetchOpenOrders(client, accountNumber, chId): the ids open in the market
fetchOpenOrders(market_) == {o.id : o \in {x \in BagToSet(venueOrders) : x.market = market_}}

\* a set of ids as the list the venue answers with
RECURSIVE AsList(_)
AsList(ids) ==
  IF ids = {} THEN <<>>
  ELSE LET m == CHOOSE i \in ids : \A j \in ids : i <= j
       IN <<m>> \o AsList(ids \ {m})

AdapterCalls == {p \in BagToSet(procs) : p.kind = "adapterCancelAll"}

AdapterFrame ==
  UNCHANGED <<state, market, currentOrders, mainLoopInterval, orderSyncInterval,
              marginCheckInterval, leaked, sinceUpdate, errorCount, lastMarginRatio,
              notional, feed, stopDone, startCalls, limits, exitCode, quoted, lateSignals>>

InitAdapter ==
  /\ state = "stopped"
  /\ market = "null"
  /\ currentOrders = {}
  /\ mainLoopInterval = FALSE
  /\ orderSyncInterval = FALSE
  /\ marginCheckInterval = FALSE
  /\ leaked = {}
  /\ sinceUpdate = updateThrottleMs
  /\ errorCount = 0
  /\ lastMarginRatio = 100
  /\ notional = 0
  /\ feed = [connected |-> FALSE, warm |-> FALSE, sampled |-> FALSE]
  /\ venueOrders \in {SetToBag(b) : b \in SUBSET VenueBook}
  /\ procs = EmptyBag
  /\ stopDone = NoStop
  /\ startCalls = 0
  /\ limits = Overlapping
  /\ exitCode = NotExited
  /\ quoted = NoQuote
  /\ lateSignals = 0

\* index.ts:225-227: cancelAllOrders(symbol) is called once no earlier call
\* is in flight: getChIdForSymbol(symbol) is issued
AdapterCancelAllCall ==
  /\ \A p \in AdapterCalls : p.pc \in {"returned", "threw"}
  /\ BagCardinality(procs) < MaxAdapterCalls
  /\ procs' = procs (+) One(Proc("adapterCancelAll", "getChId", <<>>, {}))
  /\ UNCHANGED venueOrders
  /\ AdapterFrame

\* a rejected await leaves cancelAllOrders(symbol): it has no try/catch
AdapterThrow(p) == procs' = Resume(p, [p EXCEPT !.pc = "threw"])

\* index.ts:227-228: getChIdForSymbol settles, getAccountCap is issued
AdapterChIdDone(p, ok) ==
  /\ p.kind = "adapterCancelAll" /\ p.pc = "getChId"
  /\ IF ok THEN procs' = Resume(p, [p EXCEPT !.pc = "getAccountCap"])
     ELSE AdapterThrow(p)
  /\ UNCHANGED venueOrders
  /\ AdapterFrame

\* index.ts:228-229: getAccountCap settles, fetchOpenOrders is issued
AdapterAccountCapDone(p, ok) ==
  /\ p.kind = "adapterCancelAll" /\ p.pc = "getAccountCap"
  /\ IF ok THEN procs' = Resume(p, [p EXCEPT !.pc = "fetchOpenOrders"])
     ELSE AdapterThrow(p)
  /\ UNCHANGED venueOrders
  /\ AdapterFrame

\* a cancelAllOrders(symbol) that sends the cancel request whatever the list
AdapterFetchDoneNoGuard(p, ok) ==
  /\ p.kind = "adapterCancelAll" /\ p.pc = "fetchOpenOrders"
  /\ IF ok
     THEN procs' = Resume(p, [p EXCEPT !.pc = "cancelOrders",
                                       !.todo = AsList(fetchOpenOrders(chId)),
                                       !.log = p.log \cup {"cancelOrders"}])
     ELSE AdapterThrow(p)
  /\ UNCHANGED venueOrders
  /\ AdapterFrame

\* index.ts:229-238: fetchOpenOrders settles: with orders.length > 0 the one
\* cancelOrders request for all the ids is issued, otherwise the call returns
AdapterFetchDone(p, ok) ==
  /\ p.kind = "adapterCancelAll" /\ p.pc = "fetchOpenOrders"
  /\ IF ok
     THEN LET orders == AsList(fetchOpenOrders(chId))
          IN IF Len(orders) > 0
             THEN procs' = Resume(p, [p EXCEPT !.pc = "cancelOrders",
                                               !.todo = orders,
                                               !.log = p.log \cup {"cancelOrders"}])
             ELSE procs' = Resume(p, [p EXCEPT !.pc = "returned"])
     ELSE AdapterThrow(p)
  /\ UNCHANGED venueOrders
  /\ AdapterFrame

\* index.ts:231-237: cancelOrders settles: the venue has removed the ids, or
\* it has rejected the request
AdapterCancelOrdersDone(p, ok) ==
  /\ p.kind = "adapterCancelAll" /\ p.pc = "cancelOrders"
  /\ IF ok
     THEN /\ venueOrders' = SetToBag({o \in BagToSet(venueOrders) :
                                        ~(o.market = chId /\ o.id \in {p.todo[i] : i \in 1..Len(p.todo)})})
          /\ procs' = Resume(p, [p EXCEPT !.pc = "returned"])
     ELSE /\ AdapterThrow(p)
          /\ UNCHANGED venueOrders
  /\ AdapterFrame

\* the venue fills a resting order
VenueFill(o) ==
  /\ o \in BagToSet(venueOrders)
  /\ venueOrders' = venueOrders (-) One(o)
  /\ UNCHANGED procs
  /\ AdapterFrame

NextAdapter ==
  \/ AdapterCancelAllCall
  \/ \E o \in VenueBook : VenueFill(o)
  \/ \E p \in BagToSet(procs), ok \in BOOLEAN :
       \/ AdapterChIdDone(p, ok)
       \/ AdapterAccountCapDone(p, ok)
       \/ AdapterFetchDone(p, ok)
       \/ AdapterCancelOrdersDone(p, ok)

SpecAdapter == InitAdapter /\ [][NextAdapter]_vars

\* this step settles the fetchOpenOrders call of p with an answer
FetchAnswers(p) ==
  /\ p.kind = "adapterCancelAll" /\ p.pc = "fetchOpenOrders"
  /\ Stepped(p)
  /\ ~Arrived([p EXCEPT !.pc = "threw"])

QuoterSpreads == {0, 5, 10}

QuoterTicks == {1, 100}

QuoterOrderSizes == {100, 1000}

QuoterLots == {100, 100000}

QuoterPrices == {10000, 10050}

QuoterNotionals == {-2100, -600, -100, 0, 100, 600, 2100}

\* the valid configs: takeProfitBps <= spreadBps, maxPositionUsd >= closeThresholdUsd
QuoterConfigs ==
  {c \in [spreadBps : QuoterSpreads, takeProfitBps : QuoterSpreads,
          closeThresholdUsd : {closeThresholdUsd}, maxPositionUsd : {maxPositionUsd},
          orderSizeUsd : QuoterOrderSizes, tickSize : QuoterTicks,
          lotsPerBase : QuoterLots] :
     c.takeProfitBps <= c.spreadBps /\ c.maxPositionUsd >= c.closeThresholdUsd}

\* step 1
isCloseModeFor(cfg, signedNotional) == Abs(signedNotional) >= cfg.closeThresholdUsd

\* a generator that suppresses no side
suppressedNever(cfg, side, signedNotional) == FALSE

\* step 3: the side that would increase the exposure is null in close mode
\* and at the hard limit
suppressed(cfg, side, signedNotional) ==
  /\ \/ isCloseModeFor(cfg, signedNotional)
     \/ Abs(signedNotional) >= cfg.maxPositionUsd
  /\ \/ side = "buy" /\ signedNotional > 0
     \/ side = "sell" /\ signedNotional < 0

\* a close order sized like any other order
sizeUsdUncapped(cfg, signedNotional) == cfg.orderSizeUsd

\* step 4: the USD a side is sized from
sizeUsd(cfg, signedNotional) ==
  IF isCloseModeFor(cfg, signedNotional)
  THEN IF cfg.orderSizeUsd <= Abs(signedNotional)
       THEN cfg.orderSizeUsd ELSE Abs(signedNotional)
  ELSE cfg.orderSizeUsd

\* step 4: USD converted to base units at the quote price, in lots
toLots(cfg, usd, price) == (usd * cfg.lotsPerBase) \div price

\* generateQuotes(fairPrice, signedExposureNotional) of a Quoter bound to cfg
quoteFor(cfg, fairPrice, signedNotional) ==
  LET close == isCloseModeFor(cfg, signedNotional)
      hs == IF close THEN cfg.takeProfitBps ELSE cfg.spreadBps
      bid == bidTargetAt(fairPrice, hs, cfg.tickSize)
      ask == askTargetAt(fairPrice, hs, cfg.tickSize)
      usd == sizeUsd(cfg, signedNotional)
  IN [hasBid |-> ~suppressed(cfg, "buy", signedNotional),
      hasAsk |-> ~suppressed(cfg, "sell", signedNotional),
      bidPrice |-> bid,
      askPrice |-> ask,
      bidSize |-> toLots(cfg, usd, bid),
      askSize |-> toLots(cfg, usd, ask),
      bidReduceOnly |-> close,
      askReduceOnly |-> close]

InitQuoter ==
  /\ state = "stopped"
  /\ market = "null"
  /\ currentOrders = {}
  /\ mainLoopInterval = FALSE
  /\ orderSyncInterval = FALSE
  /\ marginCheckInterval = FALSE
  /\ leaked = {}
  /\ sinceUpdate = updateThrottleMs
  /\ errorCount = 0
  /\ lastMarginRatio = 100
  /\ notional = 0
  /\ feed = [connected |-> FALSE, warm |-> FALSE, sampled |-> FALSE]
  /\ venueOrders = EmptyBag
  /\ procs = EmptyBag
  /\ stopDone = NoStop
  /\ startCalls = 0
  /\ limits = Overlapping
  /\ exitCode = NotExited
  /\ quoted \in [cfg : QuoterConfigs, fairPrice : QuoterPrices,
                 signedNotional : QuoterNotionals, quote : {<<>>}]
  /\ lateSignals = 0

\* generateQuotes is called with the arguments drawn
GenerateQuotes ==
  /\ quoted # NoQuote
  /\ quoted.quote = <<>>
  /\ quoted' = [quoted EXCEPT
                  !.quote = <<quoteFor(quoted.cfg, quoted.fairPrice, quoted.signedNotional)>>]
  /\ UNCHANGED <<state, market, currentOrders, mainLoopInterval, orderSyncInterval,
                 marginCheckInterval, leaked, sinceUpdate, errorCount, lastMarginRatio,
                 notional, feed, venueOrders, procs, stopDone, startCalls, limits,
                 exitCode, lateSignals>>

NextQuoter == GenerateQuotes

SpecQuoter == InitQuoter /\ [][NextQuoter]_vars

\* generateQuotes has returned
Quoted == quoted # NoQuote /\ quoted.quote # <<>>

\* the Quote returned
TheQuote == quoted.quote[1]

BothSides == TheQuote.hasBid /\ TheQuote.hasAsk

Crossed == BothSides /\ TheQuote.bidPrice >= TheQuote.askPrice

\* C22 as stated: for every fair price, signed exposure and valid config the
\* quote returned never has both sides non-null and bidPrice >= askPrice.
C22_NeverCrossed == Quoted => ~Crossed

\* C22 amended: the same for the valid configs with spreadBps > 0.
C22_NeverCrossedWithSpread == Quoted /\ quoted.cfg.spreadBps > 0 => ~Crossed

\* a two-sided quote at a fair price off the tick grid with a positive spread
C22_Witness ==
  /\ Quoted /\ BothSides
  /\ quoted.cfg.spreadBps > 0 /\ quoted.cfg.tickSize = 100
  /\ quoted.fairPrice % 100 # 0

CloseMode == isCloseModeFor(quoted.cfg, quoted.signedNotional)

\* the quote has exactly the ask, marked reduceOnly
OnlyAsk == ~TheQuote.hasBid /\ TheQuote.hasAsk /\ TheQuote.askReduceOnly

\* the quote has exactly the bid, marked reduceOnly
OnlyBid == TheQuote.hasBid /\ ~TheQuote.hasAsk /\ TheQuote.bidReduceOnly

\* C23: in close mode the quote has exactly one non-null side, the reducing
\* one (the ask when long, the bid when short), and that side is reduceOnly;
\* in normal mode, which is below maxPositionUsd, both sides are non-null and
\* neither is reduceOnly.
C23_CloseModeQuotesReducingSide ==
  Quoted =>
    IF CloseMode
    THEN IF quoted.signedNotional > 0 THEN OnlyAsk ELSE OnlyBid
    ELSE /\ Abs(quoted.signedNotional) < quoted.cfg.maxPositionUsd
         /\ BothSides
         /\ ~TheQuote.bidReduceOnly /\ ~TheQuote.askReduceOnly

\* a close-mode quote for a short position
C23_Witness == Quoted /\ CloseMode /\ quoted.signedNotional < 0 /\ OnlyBid

\* the size, in lots, of the reducing side of a close-mode quote
CloseSize == IF quoted.signedNotional > 0 THEN TheQuote.askSize ELSE TheQuote.bidSize

\* size lots do not exceed the position, which is abs(signedNotional) /
\* fairPrice base units (notionalUsd = signedSize * fairPrice, section 4.3)
WithinPosition(size) ==
  size * quoted.fairPrice <= Abs(quoted.signedNotional) * quoted.cfg.lotsPerBase

SamplePrices == {9900, 10000, 10100}

\* a weight that grows with dt / windowMs without the exponential
alphaLinear(dt) == dt * 500

\* alpha = 1 - exp(-dt / windowMs) in thousandths, dt in half windows; from
\* five half windows on the double rounds to 1
alpha(dt) ==
  CASE dt = 0 -> 0
    [] dt = 1 -> 393
    [] dt = 2 -> 632
    [] dt = 3 -> 777
    [] dt = 4 -> 865
    [] OTHER -> 1000

\* ema' = ema + alpha * (p - ema); the first sample initializes ema = p
emaUpdate(emaValue, p, dt) ==
  IF emaValue = <<>> THEN <<p>>
  ELSE <<emaValue[1] + (alpha(dt) * (p - emaValue[1])) \div 1000>>

InitEma ==
  /\ state = "stopped"
  /\ market = "null"
  /\ currentOrders = {}
  /\ mainLoopInterval = FALSE
  /\ orderSyncInterval = FALSE
  /\ marginCheckInterval = FALSE
  /\ leaked = {}
  /\ sinceUpdate = updateThrottleMs
  /\ errorCount = 0
  /\ lastMarginRatio = 100
  /\ notional = 0
  /\ feed = [connected |-> TRUE, warm |-> FALSE, sampled |-> FALSE,
             emaValue |-> <<>>, lastTs |-> 0, samples |-> <<>>]
  /\ venueOrders = EmptyBag
  /\ procs = EmptyBag
  /\ stopDone = NoStop
  /\ startCalls = 0
  /\ limits = Overlapping
  /\ exitCode = NotExited
  /\ quoted = NoQuote
  /\ lateSignals = 0

\* onSample(price, ts), the timestamps of the feed non-decreasing
EmaOnSample(p, ts) ==
  /\ Len(feed.samples) < MaxSamples
  /\ ts >= feed.lastTs /\ ts <= MaxTs
  /\ feed' = [feed EXCEPT !.sampled = TRUE,
                          !.emaValue = emaUpdate(feed.emaValue, p, ts - feed.lastTs),
                          !.lastTs = ts,
                          !.samples = Append(feed.samples, p)]
  /\ UNCHANGED <<state, market, currentOrders, mainLoopInterval, orderSyncInterval,
                 marginCheckInterval, leaked, sinceUpdate, errorCount, lastMarginRatio,
                 notional, venueOrders, procs, stopDone, startCalls, limits,
                 exitCode, quoted, lateSignals>>

NextEma == \E p \in SamplePrices, ts \in 0..MaxTs : EmaOnSample(p, ts)

SpecEma == InitEma /\ [][NextEma]_vars

SamplesSoFar == {feed.samples[i] : i \in 1..Len(feed.samples)}

\* C25: after each sample of a sequence with non-decreasing timestamps the
\* EMA fair price lies within [min(samples so far), max(samples so far)].
C25_EmaWithinSamples ==
  feed.emaValue # <<>>
    => /\ \E lo \in SamplesSoFar : lo <= feed.emaValue[1]
       /\ \E hi \in SamplesSoFar : feed.emaValue[1] <= hi

\* three samples in, the EMA is strictly inside the range and off the last sample
C25_Witness ==
  /\ Len(feed.samples) = 3
  /\ \E lo \in SamplesSoFar : lo < feed.emaValue[1]
  /\ \E hi \in SamplesSoFar : feed.emaValue[1] < hi
  /\ feed.emaValue[1] # feed.samples[3]

(***************************************************************************)
(* The gates of the quoting tick  (types.ts:397-430)                       *)
(***************************************************************************)
\* the four gates a tick passes at its entry, as the state has them
GatesOpen == PassesStateGate /\ PassesThrottle /\ isReady /\ ~isAtMax

\* this step is a quoting tick that took lastUpdateTime and returned before
\* its first await
ReturnsEarly ==
  /\ sinceUpdate # 0 /\ sinceUpdate' = 0
  /\ procs' = procs
  /\ ~CountsError

OpenOrdersSettles(p) == p.kind = "sync" /\ p.pc = "getOpenOrders" /\ Stepped(p)

\* C27: a sync tick whose getOpenOrders fails ends there, leaving
\* currentOrders, the exposure state, the lifecycle state and errorCount
\* unchanged; one whose getOpenOrders succeeds replaces currentOrders by the
\* list the venue answers with and goes on to syncPosition.
C27_SyncOrdersOutcome ==
  [][\A p \in InFlight("sync") :
       OpenOrdersSettles(p)
         => IF Arrived([p EXCEPT !.pc = "syncPosition"])
            THEN currentOrders' = openOrders
            ELSE /\ Count("sync")' < Count("sync")
                 /\ UNCHANGED <<currentOrders, notional, state, errorCount>>]_vars

\* a sync tick has replaced the cache by the orders a quoting tick placed
C27_Witness ==
  /\ \E p \in InFlight("sync") : p.pc = "syncPosition"
  /\ Placed("buy") + Placed("sell") > 0
  /\ currentOrders = openOrders

(***************************************************************************)
(* start() called again  (types.ts:179-183): behaviours with a start()     *)
(* call more than the orchestrator's first, interleaved with stop().       *)
(***************************************************************************)
Restarting ==
  [b |-> [Bounds(MaxStops, 0) EXCEPT !.startCalls = MaxStartCalls + 1],
   prices |-> {CHOOSE f \in FairPrices : TRUE}, notionals |-> {0}, margins |-> {12}]

InitRestart ==
  /\ state = "stopped"
  /\ market = "null"
  /\ currentOrders = {}
  /\ mainLoopInterval = FALSE
  /\ orderSyncInterval = FALSE
  /\ marginCheckInterval = FALSE
  /\ leaked = {}
  /\ sinceUpdate = updateThrottleMs
  /\ errorCount = 0
  /\ lastMarginRatio = 100
  /\ notional = 0
  /\ feed = [connected |-> FALSE, warm |-> FALSE, sampled |-> FALSE]
  /\ venueOrders \in {EmptyBag, One([side |-> "buy", price |-> 9990, pre |-> TRUE])}
  /\ procs = EmptyBag
  /\ stopDone = NoStop
  /\ startCalls = 0
  /\ limits = Restarting
  /\ exitCode = NotExited
  /\ quoted = NoQuote
  /\ lateSignals = 0

NextRestart ==
  \/ StartCall
  \/ StartCallIgnored
  \/ StopCall
  \/ WarmupElapses
  \/ OnSample
  \/ \E p \in BagToSet(procs) :
       \/ \E ok \in BOOLEAN :
            \/ StartConnectDone(p, ok)
            \/ StartSubscribeDone(p, ok)
            \/ StartFeedConnectDone(p, ok)
       \/ \E r \in {"fail", "nomatch", "match"} : StartMarketsDone(p, r)
       \/ StartWarmupReady(p)
       \/ \E ok \in BOOLEAN, n \in limits.notionals :
            StartSyncPositionDone(p, ok, n)
       \/ \E ok \in BOOLEAN :
            \/ StartCancelDone(p, ok)
            \/ StopCancelDone(p, ok)
       \/ \E ok \in BOOLEAN, feedOk \in BOOLEAN :
            \/ StopUnsubscribeDone(p, ok, feedOk)
            \/ StopDisconnectDone(p, ok, feedOk)

SpecRestart == InitRestart /\ [][NextRestart]_vars

\* this step is a start() call getting past its guard
StartProceeds ==
  \/ startCalls' > startCalls
  \/ \E q \in BagToSet(procs') : q.kind = "start" /\ q.pc = "connect" /\ Arrived(q)

\* this step begins or continues setting up: a start() invocation arrives or
\* moves on, a timer handle is set, the feed is connected
SetsUp ==
  \/ \E q \in BagToSet(procs') : q.kind = "start" /\ Arrived(q)
  \/ ~mainLoopInterval /\ mainLoopInterval'
  \/ ~orderSyncInterval /\ orderSyncInterval'
  \/ ~marginCheckInterval /\ marginCheckInterval'
  \/ ~feed.connected /\ feed'.connected

\* C28: start() gets past its guard only in the state stopped; invoked in any
\* other state it changes nothing: every step that sets something up belongs
\* to a start() invocation that is in flight, or is a call made in stopped.
C28_StartOnlyFromStopped ==
  [][/\ StartProceeds => state = "stopped"
     /\ SetsUp => state = "stopped" \/ \E p \in InFlight("start") : Stepped(p)]_vars

\* the orchestrator runs with its timers, one start() call is still to come
\* and none is in flight: a start() now is refused
C28_Witness ==
  /\ state = "running" /\ TimerLive("quote")
  /\ Count("start") = 0
  /\ startCalls = 1 /\ startCalls < limits.b.startCalls

(***************************************************************************)
(* The margin check's inputs  (types.ts:359-392)                           *)
(***************************************************************************)
\* this step settles the getAccount call of the margin check p
AccountSettles(p) == p.kind = "margin" /\ p.pc = "getAccount" /\ Stepped(p)

\* the state the check leaves when it decides on `ratio`
StateAfterDecision(ratio) ==
  CASE MarginDecision(state, ratio) = "pause" -> "paused"
    [] MarginDecision(state, ratio) = "resume" -> "running"
    [] OTHER -> state

\* the ratios an answer with equity > 0 can give
PositiveEquityRatios ==
  {(m * 100) \div e : m \in limits.margins, e \in {x \in Equities : x > 0}}

\* C29: when getAccount settles, either lastMarginRatio keeps its value
\* (the call failed, and then the state is unchanged and the check ends; or
\* it reported equity <= 0, and then the decision is taken on the previous
\* value), or it becomes availableMargin / equity of an answer with
\* equity > 0 and the decision is taken on that.
C29_MarginCheckOnBadAccount ==
  [][\A p \in InFlight("margin") :
       AccountSettles(p)
         => IF lastMarginRatio' = lastMarginRatio
            THEN \/ state' = state /\ Count("margin")' < Count("margin")
                 \/ state' = StateAfterDecision(lastMarginRatio)
            ELSE /\ lastMarginRatio' \in PositiveEquityRatios
                 /\ state' = StateAfterDecision(lastMarginRatio')]_vars

\* the breaker had paused the orchestrator, getAccount reported equity <= 0
\* and the check resumed on the ratio it had before, the initial 100%
C29_Witness ==
  /\ state = "running"
  /\ errorCount = maxErrors
  /\ lastMarginRatio = 100

(***************************************************************************)
(* Which position syncPosition picks  (types.ts:193-207, 476-490).         *)
(* A symbol is the sequence of its characters.  The venue lists three      *)
(* markets and answers getPositions() with limits.positions, a list of     *)
(* positions [symbol, notional] in up to two of them.                      *)
(***************************************************************************)
\* config.symbol
configSymbol == <<"E", "T", "H">>

\* the Market[] of getMarkets(): [base, symbol]
VenueMarkets ==
  <<[base |-> <<"S", "O", "L">>, symbol |-> <<"S", "O", "L", "/", "U">>],
    [base |-> <<"E", "T", "H", "F", "I">>, symbol |-> <<"E", "T", "H", "F", "I", "/", "U">>],
    [base |-> <<"E", "T", "H">>, symbol |-> <<"E", "T", "H", "/", "U">>]>>

\* String.prototype.includes
includes(str, sub) ==
  \E i \in 0..(Len(str) - Len(sub)) : SubSeq(str, i + 1, i + Len(sub)) = sub

\* Array.prototype.find: the index of the first element of list that passes
\* the test (passing is the set of the elements that pass it), or 0
find(list, passing) ==
  IF \E i \in 1..Len(list) : list[i] \in passing
  THEN CHOOSE i \in 1..Len(list) :
         list[i] \in passing /\ \A j \in 1..(i - 1) : list[j] \notin passing
  ELSE 0

\* types.ts:195-200: this.market (base and config.symbol are both upper case here)
resolvedMarket ==
  LET Match(m) == m.base = configSymbol \/ m.symbol = configSymbol
      all == {VenueMarkets[i] : i \in 1..Len(VenueMarkets)}
  IN VenueMarkets[find(VenueMarkets, {m \in all : Match(m)})]

\* types.ts:479-484: the notional of the position handed to updatePosition,
\* 0 for null
pickedNotional(positions) ==
  LET Match(q) == includes(q.symbol, configSymbol) \/ q.symbol = resolvedMarket.symbol
      all == {positions[k] : k \in 1..Len(positions)}
      i == find(positions, {q \in all : Match(q)})
  IN IF i = 0 THEN 0 ELSE positions[i].notional

\* one position a market, each of its own notional
VenuePositions ==
  {[symbol |-> VenueMarkets[1].symbol, notional |-> 100],
   [symbol |-> VenueMarkets[2].symbol, notional |-> 2100],
   [symbol |-> VenueMarkets[3].symbol, notional |-> 600]}

PositionLists ==
  {<<>>} \cup {<<a>> : a \in VenuePositions}
         \cup {l \in {<<a, b>> : a \in VenuePositions, b \in VenuePositions} :
                 l[1] # l[2]}

InitPositions ==
  /\ state = "stopped"
  /\ market = "null"
  /\ currentOrders = {}
  /\ mainLoopInterval = FALSE
  /\ orderSyncInterval = FALSE
  /\ marginCheckInterval = FALSE
  /\ leaked = {}
  /\ sinceUpdate = updateThrottleMs
  /\ errorCount = 0
  /\ lastMarginRatio = 100
  /\ notional = 0
  /\ feed = [connected |-> FALSE, warm |-> FALSE, sampled |-> FALSE]
  /\ venueOrders = EmptyBag
  /\ procs = EmptyBag
  /\ stopDone = NoStop
  /\ startCalls = 0
  /\ limits \in {[b |-> Bounds(0, 0), prices |-> {CHOOSE f \in FairPrices : TRUE},
                  notionals |-> {0}, margins |-> {12}, positions |-> l] :
                 l \in PositionLists}
  /\ exitCode = NotExited
  /\ quoted = NoQuote
  /\ lateSignals = 0

NextPositions ==
  \/ StartCall
  \/ StartCallIgnored
  \/ SyncTickFire
  \/ WarmupElapses
  \/ OnSample
  \/ \E p \in BagToSet(procs) :
       \/ \E ok \in BOOLEAN :
            \/ StartConnectDone(p, ok)
            \/ StartSubscribeDone(p, ok)
            \/ StartFeedConnectDone(p, ok)
            \/ StartCancelDone(p, ok)
            \/ SyncOrdersDone(p, ok)
            \/ StartSyncPositionDone(p, ok, pickedNotional(limits.positions))
            \/ SyncPositionDone(p, ok, pickedNotional(limits.positions))
       \/ \E r \in {"fail", "nomatch", "match"} : StartMarketsDone(p, r)
       \/ StartWarmupReady(p)

SpecPositions == InitPositions /\ [][NextPositions]_vars

\* this step settles the getPositions call of a syncPosition
PositionsSettle(p) == p.pc = "syncPosition" /\ Stepped(p)

\* the notional of the venue's position in the market start() resolved, 0 if none
ResolvedMarketNotional ==
  LET own == {i \in 1..Len(limits.positions) :
                limits.positions[i].symbol = resolvedMarket.symbol}
  IN IF own = {} THEN 0 ELSE limits.positions[CHOOSE i \in own : TRUE].notional

\* C30: when the getPositions call of a syncPosition settles, the exposure
\* state is left alone (the call failed) or it becomes that of the position
\* in the market resolved in start(), flat when that market has no position.
C30_PositionOfResolvedMarket ==
  [][\A p \in BagToSet(procs) :
       PositionsSettle(p) => notional' \in {notional, ResolvedMarketNotional}]_vars

(***************************************************************************)
(* The error state.                                                        *)
(***************************************************************************)
\* C31: the state becomes error only in a step where a start() fails, taken from
\* connecting or warming_up; while the state is error no periodic timer is
\* installed; and the state leaves error only in a step where a stop() returns.
C31_ErrorOnlyFromFailedStart ==
  /\ [][state # "error" /\ state' = "error" =>
         /\ \E p \in InFlight("start") : StartFailed(p)
         /\ state \in {"connecting", "warming_up"}]_vars
  /\ [](state = "error" =>
         ~TimerLive("quote") /\ ~TimerLive("sync") /\ ~TimerLive("margin"))
  /\ [][state = "error" /\ state' # "error" =>
         \E p \in InFlight("stop") : StopReturns(p)]_vars


(***************************************************************************)
(* The warm-up wait under fairness  (types.ts:217-241, 299-314)            *)
(***************************************************************************)
\* types.ts:229-232: the getPositions or the cancel-all awaited by start()
\* settles, with either outcome
StartAwaitSettles ==
  \E p \in BagToSet(procs), ok \in BOOLEAN :
    \/ \E n \in limits.notionals : StartSyncPositionDone(p, ok, n)
    \/ StartCancelDone(p, ok)

\* start() and stop() calls against a venue; types.ts:301-309: checkWarmup
\* runs again a second after it found the estimator not ready, for as long as
\* it has not resolved
SpecWarmup ==
  /\ InitRestart /\ [][NextRestart]_vars
  /\ WF_vars(\E p \in BagToSet(procs) : StartWarmupReady(p))

\* stop() is never called and the estimator becomes and stays ready
WarmupHypotheses ==
  /\ [](Count("stop") = 0 /\ ~stopDone.done)
  /\ <>[]isReady

\* a start() that reached warming_up reaches running with the intervals installed
WarmupGoal ==
  (state = "warming_up") ~>
    (/\ state = "running"
     /\ mainLoopInterval /\ orderSyncInterval /\ marginCheckInterval)

TimerTickStarts ==
  \E q \in BagToSet(procs') :
    /\ Arrived(q)
    /\ \/ q.kind = "quote" /\ q.pc = "cancelAll"
       \/ q.kind = "sync" /\ q.pc = "getOpenOrders"
       \/ q.kind = "margin" /\ q.pc = "getAccount" /\ Count("start")' = Count("start")

\* C33: the step in which stop() is invoked, up to its first await, leaves no
\* interval handle installed; a stop() touches the feed and the state only in
\* the step in which it returns, which comes after the cancel-all and the
\* unsubscribe were attempted; and once stop() has been invoked no interval
\* callback starts a quoting, sync or margin tick.
C33_StopOrderAndNoTickAfter ==
  /\ [][(\E q \in BagToSet(procs') :
           q.kind = "stop" /\ q.pc = "cancelAll" /\ Arrived(q)) =>
         ~mainLoopInterval' /\ ~orderSyncInterval' /\ ~marginCheckInterval']_vars
  /\ [][\A p \in InFlight("stop") :
          /\ Stepped(p) /\ ~StopReturns(p) => UNCHANGED <<feed, state>>
          /\ StopReturns(p) =>
               /\ p.pc \in {"unsubscribe", "disconnect"}
               /\ {"cancelAll", "unsubscribe"} \subseteq p.log
               /\ state' = "stopped"]_vars
  /\ [][TimerTickStarts => ~StopAttempted]_vars


(***************************************************************************)
(* Repeated signals  (cli/bot.ts:67-87)                                    *)
(***************************************************************************)
\* C34: mm.stop() is invoked only when it was never invoked before, whatever
\* signals arrive while it is in progress, and the process exits with status 0
\* only when that stop() has returned.
C34_StopOnceThenExitZero ==
  /\ [][Count("stop")' > Count("stop") => ~StopAttempted]_vars
  /\ [][exitCode = NotExited /\ exitCode' = <<0>> =>
         stopDone.done /\ Count("stop") = 0]_vars

\* the process has exited 0 after signals arrived during the stop()
C34_Witness ==
  /\ exitCode = <<0>> /\ lateSignals = MaxSignals
  /\ stopDone.done /\ Count("stop") = 0


====
